---- MODULE Spec2Model ----
(***************************************************************************)
(* Model of the static submission grader: the raw syntax tree of a         *)
(* submission, the two call extractors (verify_helpers.extract_python_     *)
(* details and StatementParser), the call matcher of CodeValidator and     *)
(* the two step sequencers (CodeValidator.validate_steps and               *)
(* utils.run_verification), the two variable resolvers                     *)
(* (retrieve_variable_values) and utils.find_import_from_statement.        *)
(***************************************************************************)
EXTENDS Integers, Sequences, FiniteSets, TLC

VARIABLES
    runner,             \* which entry point runs: "validate_steps" | "run_verification" | "parse" | a resolver
    source,             \* the submission: the body of the ast.Module (sequence of statement nodes)
    steps,              \* validate_steps: self.steps (FunctionCallSpec list); run_verification: checks
    pc,                 \* position of the running function
    self_lines,         \* CodeValidator.lines, as stored by __init__
    self_variables,     \* names recorded by _update_user_variable_names
    i,                  \* loop index of the running loop (1-based)
    evaluated,          \* indices of the steps whose check has been evaluated, in order
    stdout,             \* what has been printed, in order
    exit_status,        \* -1 while running, else the exit status of the process
    exc,                \* the exception that left the running function, or "none"
    parsed_statements,  \* StatementParser.parse: the list being built
    function_name,      \* the function name the lookups are asked for
    validator_calls,    \* outcome of CodeValidator's lookup
    query_calls,        \* outcome of utils.find_function_calls on the parsed forest
    variable_values,    \* retrieve_variable_values: its dict `variables` (name -> value)
    resolutions,        \* one record per binding the resolver made, in the order it made them
    import_found        \* one call of utils.find_import_from_statement: arguments and outcome

vars == <<runner, source, steps, pc, self_lines, self_variables, i, evaluated,
          stdout, exit_status, exc, parsed_statements, function_name,
          validator_calls, query_calls, variable_values, resolutions, import_found>>

(***************************************************************************)
(* Bounds                                                                  *)
(***************************************************************************)
MaxStmts == 2      \* top-level statements of a submission
MaxSteps == 3      \* length of a step list

(***************************************************************************)
(* Raw syntax tree: expression nodes                                       *)
(***************************************************************************)
NoExpr == [k |-> "NoExpr", ty |-> "", s |-> "", n |-> 0, sub |-> <<>>, args |-> <<>>, kw |-> <<>>]
Name(id) == [k |-> "Name", ty |-> "", s |-> id, n |-> 0, sub |-> <<>>, args |-> <<>>, kw |-> <<>>]
Num(v) == [k |-> "Constant", ty |-> "int", s |-> "", n |-> v, sub |-> <<>>, args |-> <<>>, kw |-> <<>>]
StrC(v) == [k |-> "Constant", ty |-> "str", s |-> v, n |-> 0, sub |-> <<>>, args |-> <<>>, kw |-> <<>>]
Attribute(value, attr) == [k |-> "Attribute", ty |-> "", s |-> attr, n |-> 0, sub |-> <<value>>, args |-> <<>>, kw |-> <<>>]
Subscript(value, slice) == [k |-> "Subscript", ty |-> "", s |-> "", n |-> 0, sub |-> <<value, slice>>, args |-> <<>>, kw |-> <<>>]
TupleE(elts) == [k |-> "Tuple", ty |-> "", s |-> "", n |-> 0, sub |-> elts, args |-> <<>>, kw |-> <<>>]
ListE(elts) == [k |-> "List", ty |-> "", s |-> "", n |-> 0, sub |-> elts, args |-> <<>>, kw |-> <<>>]
SetE(elts) == [k |-> "Set", ty |-> "", s |-> "", n |-> 0, sub |-> elts, args |-> <<>>, kw |-> <<>>]
UnaryOp(op, operand) == [k |-> "UnaryOp", ty |-> "", s |-> op, n |-> 0, sub |-> <<operand>>, args |-> <<>>, kw |-> <<>>]
BinOp(left, op, right) == [k |-> "BinOp", ty |-> "", s |-> op, n |-> 0, sub |-> <<left, right>>, args |-> <<>>, kw |-> <<>>]
\* keywords are <<arg, value>> pairs
Call(func, args, keywords) == [k |-> "Call", ty |-> "", s |-> "", n |-> 0, sub |-> <<func>>, args |-> args, kw |-> keywords]

(***************************************************************************)
(* Raw syntax tree: statement nodes.  names holds <<name, asname>> pairs,  *)
(* asname "" standing for no alias.                                        *)
(***************************************************************************)
Stmt(k) == [k |-> k, targets |-> <<>>, value |-> NoExpr, body |-> <<>>, orelse |-> <<>>,
            names |-> <<>>, module |-> "", level |-> 0, name |-> ""]
Assign(targets, value) == [Stmt("Assign") EXCEPT !.targets = targets, !.value = value]
Expr(value) == [Stmt("Expr") EXCEPT !.value = value]
Import(names) == [Stmt("Import") EXCEPT !.names = names]
ImportFrom(module, names, level) == [Stmt("ImportFrom") EXCEPT !.module = module, !.names = names, !.level = level]
FunctionDef(name, body) == [Stmt("FunctionDef") EXCEPT !.name = name, !.body = body]
ClassDef(name, body) == [Stmt("ClassDef") EXCEPT !.name = name, !.body = body]
If(test, body, orelse) == [Stmt("If") EXCEPT !.value = test, !.body = body, !.orelse = orelse]
For(target, iter, body, orelse) == [Stmt("For") EXCEPT !.targets = <<target>>, !.value = iter, !.body = body, !.orelse = orelse]
With(context_expr, body) == [Stmt("With") EXCEPT !.value = context_expr, !.body = body]
While(test, body) == [Stmt("While") EXCEPT !.value = test, !.body = body]
Pass == Stmt("Pass")

(***************************************************************************)
(* Python values that cross the functions' interfaces                      *)
(***************************************************************************)
PyNone == [t |-> "NoneType"]
PyStr(s) == [t |-> "str", s |-> s]
PyInt(n) == [t |-> "int", n |-> n]
PyTuple(items) == [t |-> "tuple", items |-> items]
PyList(items) == [t |-> "list", items |-> items]
\* the outcome of a call: a returned value or a raised exception
Return(value) == [exc |-> "none", value |-> value]
Raise(exception) == [exc |-> exception, value |-> PyNone]

RECURSIVE Join(_, _)
Join(strs, sep) ==
    IF strs = <<>> THEN ""
    ELSE IF Len(strs) = 1 THEN strs[1]
    ELSE strs[1] \o sep \o Join(Tail(strs), sep)

RECURSIVE Concat(_)
Concat(seqs) == IF seqs = <<>> THEN <<>> ELSE Head(seqs) \o Concat(Tail(seqs))

\* repr() of the value of an ast.Constant
repr(node) == IF node.ty = "int" THEN ToString(node.n) ELSE "'" \o node.s \o "'"

(***************************************************************************)
(* verify_helpers.unparse: the backported renderer.  Node kinds without a  *)
(* visit_ method go through NodeVisitor.generic_visit, which visits the    *)
(* child nodes and so concatenates their renderings; visit_Call renders    *)
(* the positional arguments only.                                          *)
(***************************************************************************)
\* _Unparser.operator: the four operators it knows, by their ast class name
operator(op) ==
    CASE op = "Add" -> "+"
      [] op = "Sub" -> "-"
      [] op = "Mult" -> "*"
      [] op = "Div" -> "/"

RECURSIVE unparse(_)
unparse(node) ==
    CASE node.k = "Name" -> node.s
      [] node.k = "Constant" -> repr(node)
      [] node.k = "BinOp" ->
            unparse(node.sub[1]) \o " " \o operator(node.s) \o " " \o unparse(node.sub[2])
      [] node.k = "Attribute" -> unparse(node.sub[1]) \o "." \o node.s
      [] node.k = "Call" ->
            unparse(node.sub[1]) \o "("
                \o Join([j \in 1..Len(node.args) |-> unparse(node.args[j])], ", ") \o ")"
      [] OTHER -> Join([j \in 1..Len(node.sub) |-> unparse(node.sub[j])], "")

(***************************************************************************)
(* ast.unparse of the standard library, as used by StatementParser         *)
(***************************************************************************)
binop_symbol(op) ==
    CASE op = "Add" -> "+"
      [] op = "Sub" -> "-"
      [] op = "Mult" -> "*"
      [] op = "Div" -> "/"
      [] op = "Mod" -> "%"

unaryop_symbol(op) == CASE op = "USub" -> "-" [] op = "Not" -> "not "

RECURSIVE ast_unparse(_)
ast_unparse(node) ==
    LET elts == [j \in 1..Len(node.sub) |-> ast_unparse(node.sub[j])]
    IN  CASE node.k = "Name" -> node.s
          [] node.k = "Constant" -> repr(node)
          [] node.k = "Attribute" -> elts[1] \o "." \o node.s
          [] node.k = "Subscript" -> elts[1] \o "[" \o elts[2] \o "]"
          [] node.k = "Tuple" ->
                IF Len(elts) = 1 THEN "(" \o elts[1] \o ",)"
                ELSE "(" \o Join(elts, ", ") \o ")"
          [] node.k = "List" -> "[" \o Join(elts, ", ") \o "]"
          [] node.k = "Set" -> "{" \o Join(elts, ", ") \o "}"
          [] node.k = "UnaryOp" -> unaryop_symbol(node.s) \o elts[1]
          [] node.k = "BinOp" -> elts[1] \o " " \o binop_symbol(node.s) \o " " \o elts[2]
          [] node.k = "Call" ->
                elts[1] \o "("
                    \o Join([j \in 1..Len(node.args) |-> ast_unparse(node.args[j])]
                            \o [j \in 1..Len(node.kw) |->
                                    node.kw[j][1] \o "=" \o ast_unparse(node.kw[j][2])],
                            ", ")
                    \o ")"
          [] OTHER -> ""

(***************************************************************************)
(* ast.walk restricted to statement nodes: breadth-first, so every         *)
(* statement of nesting depth d comes before every statement of depth d+1. *)
(***************************************************************************)
iter_child_nodes(node) == node.body \o node.orelse

RECURSIVE walk(_)
walk(nodes) ==
    IF nodes = <<>> THEN <<>>
    ELSE nodes \o walk(Concat([j \in 1..Len(nodes) |-> iter_child_nodes(nodes[j])]))

(***************************************************************************)
(* verify_helpers.extract_python_details                                   *)
(***************************************************************************)
\* the 'variable' entry of the record of `variable = function(...)`
call_variable(node) ==
    LET target == node.targets[1]
    IN  IF target.k \in {"Tuple", "List"}
        THEN PyTuple([j \in 1..Len(target.sub) |-> unparse(target.sub[j])])
        ELSE IF target.k = "Name"
        THEN (IF target.s # "_" THEN PyStr(target.s) ELSE PyNone)
        ELSE PyNone

call_details(variable, call) ==
    [t |-> "dict",
     variable |-> variable,
     function |-> unparse(call.sub[1]),
     args |-> [j \in 1..Len(call.args) |-> unparse(call.args[j])],
     kwargs |-> {<<call.kw[j][1], unparse(call.kw[j][2])>> : j \in 1..Len(call.kw)}]

\* the records one node of the walk appends to `lines`
node_lines(node) ==
    IF node.k = "Assign" /\ node.value.k = "Call"
    THEN <<call_details(call_variable(node), node.value)>>
    ELSE IF node.k = "Expr" /\ node.value.k = "Call"
    THEN <<call_details(PyNone, node.value)>>
    ELSE <<>>

RECURSIVE name_targets(_, _)
name_targets(targets, value) ==
    IF targets = <<>> THEN <<>>
    ELSE (IF Head(targets).k = "Name"
          THEN <<[t |-> "dict", variable |-> Head(targets).s, value |-> value]>>
          ELSE <<>>) \o name_targets(Tail(targets), value)

\* the records one node of the walk appends to `variables`
node_variables(node) ==
    IF node.k = "Assign" /\ node.value.k # "Call"
    THEN name_targets(node.targets,
                      IF node.value.k = "Constant"
                      THEN (IF node.value.ty = "int" THEN PyInt(node.value.n)
                            ELSE PyStr(node.value.s))
                      ELSE PyNone)
    ELSE <<>>

extract_python_details(tree) ==
    LET nodes == walk(tree)
        lines == Concat([j \in 1..Len(nodes) |-> node_lines(nodes[j])])
        variables == Concat([j \in 1..Len(nodes) |-> node_variables(nodes[j])])
    IN  PyTuple(<<PyList(lines), PyList(variables)>>)

(***************************************************************************)
(* verify_helpers.find_function_call: iterates over its argument and       *)
(* subscripts every element with 'function'.  Subscripting a list or a     *)
(* tuple with a string raises TypeError, a dict without the key KeyError.  *)
(***************************************************************************)
RECURSIVE find_function_call_loop(_, _, _)
find_function_call_loop(items, name, function_calls) ==
    IF items = <<>> THEN Return(function_calls)
    ELSE LET line == Head(items)
         IN  IF line.t # "dict" THEN Raise("TypeError")
             ELSE IF "function" \notin DOMAIN line THEN Raise("KeyError")
             ELSE find_function_call_loop(
                      Tail(items), name,
                      IF line.function = name THEN Append(function_calls, line)
                      ELSE function_calls)

find_function_call(lines, name) == find_function_call_loop(lines.items, name, <<>>)

(***************************************************************************)
(* validator.FunctionCallSpec and CodeValidator                            *)
(***************************************************************************)
FunctionCallSpec(name, expected_args, expected_kwargs, expected_variable_count, allow_assignment, max_calls) ==
    [function_name |-> name,
     expected_args |-> expected_args,
     expected_kwargs |-> expected_kwargs,
     expected_variable_count |-> expected_variable_count,
     allow_assignment |-> allow_assignment,
     max_calls |-> max_calls]

\* CodeValidator._extract_python_details: what __init__ stores in self.lines
CodeValidator_extract_python_details(tree) == extract_python_details(tree)

\* CodeValidator._find_function_call: the lookup over self.lines
CodeValidator_find_function_call(lines, name) == find_function_call(lines, name)

\* CodeValidator._update_user_variable_names: the keys it sets in self.variables
update_user_variable_names(function_call) ==
    IF function_call.variable.t = "tuple"
    THEN {function_call.variable.items[j] : j \in 1..Len(function_call.variable.items)}
    ELSE IF function_call.variable.t = "str"
    THEN {function_call.variable.s}
    ELSE {}

\* the (is_correct, error_msg) pair a check returns, with the names it recorded
Verdict(is_correct, error_msg, names) ==
    [exc |-> "none", is_correct |-> is_correct, error_msg |-> error_msg, names |-> names]

\* CodeValidator._validate_function_call with self.lines = lines
validate_function_call(lines, spec) ==
    LET found == CodeValidator_find_function_call(lines, spec.function_name)
    IN  IF found.exc # "none"
        THEN [exc |-> found.exc, is_correct |-> FALSE, error_msg |-> "", names |-> {}]
        ELSE
        LET function_calls == found.value
            call == function_calls[1]
            count == spec.expected_variable_count
        IN  IF function_calls = <<>>
            THEN Verdict(FALSE, "is not called", {})
            ELSE IF Len(function_calls) > spec.max_calls
            THEN Verdict(FALSE, "should be called only once", {})
            ELSE IF count.t # "NoneType" /\ call.variable.t = "NoneType"
            THEN Verdict(FALSE, "result must be assigned", {})
            ELSE IF /\ count.t # "NoneType"
                    /\ call.variable.t = "tuple"
                    /\ Len(call.variable.items) # count.n
            THEN Verdict(FALSE, "should assign to n variables", {})
            ELSE IF count.t # "NoneType" /\ call.variable.t = "str" /\ count.n # 1
            THEN Verdict(FALSE, "should assign to a single variable", {})
            ELSE IF ~spec.allow_assignment /\ call.variable.t # "NoneType"
            THEN Verdict(FALSE, "should not be assigned to a variable", {})
            ELSE IF /\ call.args # spec.expected_args
                    /\ ~(call.args = <<>> /\ call.kwargs = spec.expected_kwargs)
            THEN Verdict(FALSE, "Incorrect parameters", {})
            ELSE Verdict(TRUE, "", update_user_variable_names(call))

(***************************************************************************)
(* The inputs: submissions and step lists                                  *)
(***************************************************************************)
SeqsUpTo(S, n) == UNION {[1..m -> S] : m \in 0..n}

f_1 == Call(Name("f"), <<Num(1)>>, <<>>)                  \* f(1)
f_x1 == Call(Name("f"), <<>>, << <<"x", Num(1)>> >>)      \* f(x=1)
g_a == Call(Name("g"), <<Name("a")>>, <<>>)               \* g(a)

\* assignment targets: a, _, o.x, d[0], (a, b), [a, b], (a, o.x), ()
Targets ==
    {Name("a"), Name("_"), Attribute(Name("o"), "x"), Subscript(Name("d"), Num(0)),
     TupleE(<<Name("a"), Name("b")>>), ListE(<<Name("a"), Name("b")>>),
     TupleE(<<Name("a"), Attribute(Name("o"), "x")>>), TupleE(<<>>)}

\* statements of the submissions the validator is run on
RunStmts ==
    {Expr(f_1), Expr(f_x1), Expr(g_a)}
    \cup {Assign(<<t>>, f_1) : t \in Targets \ {TupleE(<<>>), TupleE(<<Name("a"), Attribute(Name("o"), "x")>>)}}
    \cup {Assign(<<Name("a"), Name("b")>>, f_1),            \* a = b = f(1)
          Assign(<<Name("a")>>, Num(1)),                    \* a = 1
          FunctionDef("h", <<Expr(f_1)>>)}                  \* def h(): f(1)

RunSources == SeqsUpTo(RunStmts, MaxStmts)

Specs ==
    {FunctionCallSpec("f", a, k, c, allow, m) :
        a \in {<<>>, <<"1">>},
        k \in {{}, {<<"x", "1">>}},
        c \in {PyNone, PyInt(1), PyInt(2)},
        allow \in BOOLEAN,
        m \in {1, 2}}

\* the step lists of validate_steps: one step of any spec, or several default steps
DefaultSpecs == {FunctionCallSpec(n, <<"1">>, {}, PyNone, TRUE, 1) : n \in {"f", "g"}}
StepLists == {<<spec>> : spec \in Specs} \cup SeqsUpTo(DefaultSpecs, MaxSteps)

\* the check lists of run_verification: callables returning (is_correct, error_msg)
CheckLists == {[j \in 1..n |-> "check_func"] : n \in 0..MaxSteps}

NoOutcome == [exc |-> "not run", value |-> PyNone]
\* the empty dict: variables = {}
NoVariables == [n \in {} |-> PyNone]

Init ==
    /\ runner \in {"validate_steps", "run_verification"}
    /\ IF runner = "validate_steps"
       THEN source \in RunSources /\ steps \in StepLists /\ pc = "start"
       ELSE source = <<>> /\ steps \in CheckLists /\ pc = "loop"
    /\ self_lines = PyNone
    /\ self_variables = {}
    /\ i = 1
    /\ evaluated = <<>>
    /\ stdout = <<>>
    /\ exit_status = -1
    /\ exc = "none"
    /\ parsed_statements = <<>>
    /\ function_name = ""
    /\ validator_calls = NoOutcome
    /\ query_calls = NoOutcome
    /\ variable_values = NoVariables
    /\ resolutions = <<>>
    /\ import_found = NoOutcome

(***************************************************************************)
(* CodeValidator: construction and validate_steps                          *)
(***************************************************************************)
Printed(kind, step, text) == [kind |-> kind, step |-> step, text |-> text]
Evaluated(step, outcome, error_msg) == [step |-> step, outcome |-> outcome, error_msg |-> error_msg]

\* CodeValidator._print_result
print_result(step, is_correct, error_msg) ==
    <<Printed(IF is_correct THEN "Passed" ELSE "Failed", step, "")>>
    \o (IF error_msg # "" THEN <<Printed("message", step, error_msg)>> ELSE <<>>)

\* CodeValidator.__init__
CodeValidator_init ==
    /\ runner = "validate_steps"
    /\ pc = "start"
    /\ self_lines' = CodeValidator_extract_python_details(source)
    /\ pc' = "loop"
    /\ UNCHANGED <<variable_values, resolutions, import_found>>
    /\ UNCHANGED <<runner, source, steps, self_variables, i, evaluated, stdout,
                   exit_status, exc, parsed_statements, function_name,
                   validator_calls, query_calls>>

\* one iteration of the loop of validate_steps
validate_steps_step ==
    /\ runner = "validate_steps"
    /\ pc = "loop"
    /\ i <= Len(steps)
    /\ LET r == validate_function_call(self_lines, steps[i])
       IN  IF r.exc # "none"
           THEN \* the exception leaves validate_steps: traceback, exit status 1
                /\ evaluated' = Append(evaluated, Evaluated(i, "raise", r.exc))
                /\ exc' = r.exc
                /\ exit_status' = 1
                /\ pc' = "exited"
                /\ UNCHANGED <<stdout, self_variables, i>>
           ELSE /\ evaluated' = Append(evaluated,
                                       Evaluated(i, IF r.is_correct THEN "pass" ELSE "fail",
                                                 r.error_msg))
                /\ self_variables' = self_variables \cup r.names
                /\ stdout' = stdout \o print_result(i, r.is_correct, r.error_msg)
                /\ IF ~r.is_correct
                   THEN exit_status' = 1 /\ pc' = "exited" /\ i' = i
                   ELSE exit_status' = exit_status /\ pc' = pc /\ i' = i + 1
                /\ exc' = exc
    /\ UNCHANGED <<variable_values, resolutions, import_found>>
    /\ UNCHANGED <<runner, source, steps, self_lines, parsed_statements,
                   function_name, validator_calls, query_calls>>

\* validate_steps after the loop: the banner
validate_steps_done ==
    /\ runner = "validate_steps"
    /\ pc = "loop"
    /\ i > Len(steps)
    /\ stdout' = Append(stdout, Printed("Congratulations", 0, ""))
    /\ pc' = "flag"
    /\ UNCHANGED <<variable_values, resolutions, import_found>>
    /\ UNCHANGED <<runner, source, steps, self_lines, self_variables, i, evaluated,
                   exit_status, exc, parsed_statements, function_name,
                   validator_calls, query_calls>>

\* print(self._read_flag()): the contents of /flag, or the error text when it is missing
read_flag ==
    /\ runner = "validate_steps"
    /\ pc = "flag"
    /\ \E flag_exists \in BOOLEAN :
          stdout' = Append(stdout,
                           Printed("flag", 0, IF flag_exists THEN "contents of /flag"
                                              ELSE "Error: Flag file not found."))
    /\ pc' = "exited"
    /\ exit_status' = 0
    /\ UNCHANGED <<variable_values, resolutions, import_found>>
    /\ UNCHANGED <<runner, source, steps, self_lines, self_variables, i, evaluated,
                   exc, parsed_statements, function_name, validator_calls, query_calls>>

(***************************************************************************)
(* utils.run_verification                                                  *)
(***************************************************************************)
\* run_verification_step without the sys.exit(1) of the failing branch
run_verification_step_no_exit ==
    /\ runner = "run_verification"
    /\ pc = "loop"
    /\ i <= Len(steps)
    /\ \E is_correct \in BOOLEAN :
          /\ evaluated' = Append(evaluated,
                                 Evaluated(i, IF is_correct THEN "pass" ELSE "fail",
                                           IF is_correct THEN "" ELSE "error_msg"))
          /\ stdout' = IF ~is_correct
                       THEN stdout \o <<Printed("Failed", i, ""),
                                        Printed("message", i, "error_msg")>>
                       ELSE Append(stdout, Printed("Passed", i, ""))
          /\ i' = i + 1
    /\ UNCHANGED <<variable_values, resolutions, import_found>>
    /\ UNCHANGED <<runner, source, steps, pc, exit_status, self_lines, self_variables,
                   exc, parsed_statements, function_name, validator_calls, query_calls>>

\* one iteration of the loop: the check returns (is_correct, error_msg)
run_verification_step ==
    /\ runner = "run_verification"
    /\ pc = "loop"
    /\ i <= Len(steps)
    /\ \E is_correct \in BOOLEAN :
          /\ evaluated' = Append(evaluated,
                                 Evaluated(i, IF is_correct THEN "pass" ELSE "fail",
                                           IF is_correct THEN "" ELSE "error_msg"))
          /\ IF ~is_correct
             THEN /\ stdout' = stdout \o <<Printed("Failed", i, ""),
                                            Printed("message", i, "error_msg")>>
                  /\ exit_status' = 1
                  /\ pc' = "exited"
                  /\ i' = i
             ELSE /\ stdout' = Append(stdout, Printed("Passed", i, ""))
                  /\ exit_status' = exit_status
                  /\ pc' = pc
                  /\ i' = i + 1
    /\ UNCHANGED <<variable_values, resolutions, import_found>>
    /\ UNCHANGED <<runner, source, steps, self_lines, self_variables, exc,
                   parsed_statements, function_name, validator_calls, query_calls>>

\* run_verification_done reached one iteration early
run_verification_done_early ==
    /\ runner = "run_verification"
    /\ pc = "loop"
    /\ i >= Len(steps)
    /\ stdout' = Append(stdout, Printed("Congratulations", 0, ""))
    /\ pc' = "flag"
    /\ UNCHANGED <<variable_values, resolutions, import_found>>
    /\ UNCHANGED <<runner, source, steps, self_lines, self_variables, i, evaluated,
                   exit_status, exc, parsed_statements, function_name,
                   validator_calls, query_calls>>

\* run_verification after the loop: the banner
run_verification_done ==
    /\ runner = "run_verification"
    /\ pc = "loop"
    /\ i > Len(steps)
    /\ stdout' = Append(stdout, Printed("Congratulations", 0, ""))
    /\ pc' = "flag"
    /\ UNCHANGED <<variable_values, resolutions, import_found>>
    /\ UNCHANGED <<runner, source, steps, self_lines, self_variables, i, evaluated,
                   exit_status, exc, parsed_statements, function_name,
                   validator_calls, query_calls>>

\* utils.print_flag
print_flag ==
    /\ runner = "run_verification"
    /\ pc = "flag"
    /\ \E flag_exists \in BOOLEAN :
          stdout' = Append(stdout,
                           Printed("flag", 0, IF flag_exists THEN "contents of /flag"
                                              ELSE "Error: Flag file not found."))
    /\ pc' = "exited"
    /\ exit_status' = 0
    /\ UNCHANGED <<variable_values, resolutions, import_found>>
    /\ UNCHANGED <<runner, source, steps, self_lines, self_variables, i, evaluated,
                   exc, parsed_statements, function_name, validator_calls, query_calls>>

Next ==
    \/ CodeValidator_init
    \/ validate_steps_step
    \/ validate_steps_done
    \/ read_flag
    \/ run_verification_step
    \/ run_verification_done
    \/ print_flag

Spec == Init /\ [][Next]_vars

(***************************************************************************)
(* Properties of the sequencers                                            *)
(***************************************************************************)
IsStepReport(line) == line.kind \in {"Passed", "Failed"}
\* the per-step status lines printed so far, as <<step, status>>
StepReports ==
    LET lines == SelectSeq(stdout, IsStepReport)
    IN  [j \in 1..Len(lines) |-> <<lines[j].step, lines[j].kind>>]
FlagPrinted == \E j \in 1..Len(stdout) : stdout[j].kind = "flag"
AllStepsPassed ==
    /\ Len(evaluated) = Len(steps)
    /\ \A j \in 1..Len(evaluated) : evaluated[j].outcome = "pass"

\* C1: fail-fast sequencing.  Steps are evaluated in list order; a step is
\* evaluated only after every earlier step returned a passing verdict; and when
\* a step has returned a failing verdict the process has exited with status 1,
\* having reported the earlier steps as passed and that step as failed.
C1_FailFast ==
    /\ \A j \in 1..Len(evaluated) : evaluated[j].step = j
    /\ \A j \in 1..(Len(evaluated) - 1) : evaluated[j].outcome = "pass"
    /\ (evaluated # <<>> /\ evaluated[Len(evaluated)].outcome = "fail") =>
          /\ pc = "exited"
          /\ exit_status = 1
          /\ StepReports = [j \in 1..Len(evaluated) |->
                               <<j, IF j < Len(evaluated) THEN "Passed" ELSE "Failed">>]

\* three steps of which the second failed: the run has ended without the third
C1_Witness ==
    /\ Len(steps) = 3
    /\ Len(evaluated) = 2
    /\ evaluated[2].outcome = "fail"
    /\ pc = "exited"
    /\ exit_status = 1

\* C2: the flag is printed only when every step of the list has returned a
\* passing verdict and every step's status line precedes it; a run that has
\* ended printed the flag exactly when every step passed.
C2_FlagIffAllPassed ==
    /\ FlagPrinted =>
          /\ AllStepsPassed
          /\ stdout[Len(stdout)].kind = "flag"
          /\ StepReports = [j \in 1..Len(steps) |-> <<j, "Passed">>]
    /\ pc = "exited" => (FlagPrinted <=> AllStepsPassed)
    /\ (\E j \in 1..Len(evaluated) : evaluated[j].outcome # "pass") => ~FlagPrinted

\* a run of three steps that all passed has printed the flag
C2_Witness ==
    /\ Len(steps) = 3
    /\ AllStepsPassed
    /\ FlagPrinted
    /\ pc = "exited"

(***************************************************************************)
(* Properties of the matcher, stated on the first step of validate_steps   *)
(***************************************************************************)
MatcherRan == runner = "validate_steps" /\ evaluated # <<>>
\* the call records of function `name`, in the order extract_python_details lists them
Candidates(name) ==
    find_function_call(extract_python_details(source).items[1], name).value
IsCallTo(node, name) ==
    /\ node.k \in {"Assign", "Expr"}
    /\ node.value.k = "Call"
    /\ unparse(node.value.sub[1]) = name
\* the statements those records were made from
CandidateNodes(name) == SelectSeq(walk(source), LAMBDA node : IsCallTo(node, name))
CountChecksPass(spec) ==
    /\ Candidates(spec.function_name) # <<>>
    /\ Len(Candidates(spec.function_name)) <= spec.max_calls

\* C3: for every spec and every submission the matcher returns a
\* (verdict, message) pair; no exception leaves it.
C3_MatcherReturnsVerdict ==
    MatcherRan => (evaluated[1].outcome \in {"pass", "fail"} /\ exc = "none")

\* C4: no candidate gives the 'is not called' failure; more candidates than
\* max_calls gives the 'called only once' failure; one candidate with matching
\* arguments, max_calls = 1 and no assignment constraint passes.
C4_CallCountChecks ==
    MatcherRan =>
        LET spec == steps[1]
            candidates == Candidates(spec.function_name)
            r == evaluated[1]
        IN  /\ candidates = <<>> =>
                  (r.outcome = "fail" /\ r.error_msg = "is not called")
            /\ Len(candidates) > spec.max_calls =>
                  (r.outcome = "fail" /\ r.error_msg = "should be called only once")
            /\ ( /\ spec.max_calls = 1
                 /\ Len(candidates) = 1
                 /\ candidates[1].args = spec.expected_args
                 /\ spec.expected_variable_count = PyNone
                 /\ spec.allow_assignment ) => r.outcome = "pass"

\* the number of names an assignment statement binds its value to
TargetCount(node) ==
    IF node.k # "Assign" THEN 0
    ELSE IF Len(node.targets) = 1 /\ node.targets[1].k \in {"Tuple", "List"}
    THEN Len(node.targets[1].sub)
    ELSE Len(node.targets)
ArityMessages ==
    {"result must be assigned", "should assign to n variables",
     "should assign to a single variable"}

\* C5: with expected_variable_count = n the matcher passes only if the first
\* candidate is assigned to n targets; an unassigned call fails, a tuple or
\* multi-target assignment of another arity fails, a single-target assignment
\* fails unless n = 1 and does not fail the arity check when n = 1.
C5_AssignmentArity ==
    (MatcherRan /\ steps[1].expected_variable_count # PyNone /\ CountChecksPass(steps[1])) =>
        LET spec == steps[1]
            n == spec.expected_variable_count.n
            node == CandidateNodes(spec.function_name)[1]
            r == evaluated[1]
        IN  /\ r.outcome \in {"pass", "fail"}
            /\ r.outcome = "pass" => (node.k = "Assign" /\ TargetCount(node) = n)
            /\ node.k = "Expr" => r.outcome = "fail"
            /\ (node.k = "Assign" /\ TargetCount(node) # n) => r.outcome = "fail"
            /\ (node.k = "Assign" /\ TargetCount(node) = 1 /\ n = 1) =>
                  r.error_msg \notin ArityMessages

\* C6: with allow_assignment false the matcher fails whenever the first
\* candidate is the right-hand side of an assignment, whatever its target.
C6_NoAssignmentAllowed ==
    (MatcherRan /\ ~steps[1].allow_assignment /\ CountChecksPass(steps[1])) =>
        (CandidateNodes(steps[1].function_name)[1].k = "Assign"
            => evaluated[1].outcome = "fail")

\* C7: once the count and assignment checks have passed the matcher passes if
\* and only if the first candidate's args equal expected_args, or it has no
\* args and its kwargs equal expected_kwargs; otherwise it fails with
\* 'Incorrect parameters'.  f(x=1) passes and f(1) fails for args [], kwargs {x: '1'}.
C7_ArgumentCheck ==
    ( /\ MatcherRan
      /\ steps[1].expected_variable_count = PyNone
      /\ steps[1].allow_assignment
      /\ CountChecksPass(steps[1]) ) =>
        LET spec == steps[1]
            call == Candidates(spec.function_name)[1]
            r == evaluated[1]
            accept == \/ call.args = spec.expected_args
                      \/ (call.args = <<>> /\ call.kwargs = spec.expected_kwargs)
        IN  /\ accept => r.outcome = "pass"
            /\ ~accept => (r.outcome = "fail" /\ r.error_msg = "Incorrect parameters")
            /\ (spec.expected_args = <<>> /\ spec.expected_kwargs = {<<"x", "1">>}) =>
                  /\ source = <<Expr(f_x1)>> => r.outcome = "pass"
                  /\ source = <<Expr(f_1)>> => r.outcome = "fail"

(***************************************************************************)
(* datatypes: the Statement dataclasses.  A dataclass constructor accepts  *)
(* its declared fields as keywords and raises TypeError for any other.     *)
(***************************************************************************)
FunctionCallStatement_fields == {"func", "args"}

FunctionCallStatement(keywords) ==
    IF DOMAIN keywords \subseteq FunctionCallStatement_fields
    THEN Return([t |-> "FunctionCallStatement", func |-> keywords.func, args |-> keywords.args])
    ELSE Raise("TypeError")

ImportStatement(names, alias) == [t |-> "ImportStatement", names |-> names, alias |-> alias]
ImportFromStatement(module, names, alias, level) == [t |-> "ImportFromStatement", module |-> module, names |-> names, alias |-> alias, level |-> level]
ClassDefStatement(name, bases, body) == [t |-> "ClassDefStatement", name |-> name, bases |-> bases, body |-> body]
FunctionDefStatement(name, args, body) == [t |-> "FunctionDefStatement", name |-> name, args |-> args, body |-> body]
ForStatement(target, iter, body, orelse) == [t |-> "ForStatement", target |-> target, iter |-> iter, body |-> body, orelse |-> orelse]
WithStatement(items, body) == [t |-> "WithStatement", items |-> items, body |-> body]
IfStatement(test, body, orelse) == [t |-> "IfStatement", test |-> test, body |-> body, orelse |-> orelse]
AssignStatement(targets, value) == [t |-> "AssignStatement", targets |-> targets, value |-> value]
ExprStatement(value) == [t |-> "ExprStatement", value |-> value]
GenericStatement(type_name) == [t |-> "GenericStatement", type_name |-> type_name]

(***************************************************************************)
(* parser.StatementParser                                                  *)
(***************************************************************************)
\* _parse_function_call: passes func, args and kwargs to the constructor
parse_function_call(node) ==
    FunctionCallStatement(
        [func |-> ast_unparse(node.value.sub[1]),
         args |-> [j \in 1..Len(node.value.args) |-> ast_unparse(node.value.args[j])],
         kwargs |-> {<<node.value.kw[j][1], ast_unparse(node.value.kw[j][2])>> :
                        j \in 1..Len(node.value.kw)}])

parse_expression_statement(node) == Return(ExprStatement(ast_unparse(node.value)))

\* the alias of the first imported name, if it has one
first_alias(names) ==
    IF names # <<>> /\ names[1][2] # "" THEN PyStr(names[1][2]) ELSE PyNone

parse_import_statement(node) ==
    Return(ImportStatement([j \in 1..Len(node.names) |-> node.names[j][1]],
                           first_alias(node.names)))

parse_importfrom_statement(node) ==
    Return(ImportFromStatement(node.module,
                               [j \in 1..Len(node.names) |-> node.names[j][1]],
                               first_alias(node.names), node.level))

\* the strings one target of an assignment adds to `targets`
assign_target_strings(target) ==
    IF target.k = "Tuple"
    THEN [j \in 1..Len(target.sub) |->
             IF target.sub[j].k = "Name" THEN target.sub[j].s
             ELSE ast_unparse(target.sub[j])]
    ELSE <<ast_unparse(target)>>

parse_assign_statement(node) ==
    LET targets == Concat([j \in 1..Len(node.targets) |->
                              assign_target_strings(node.targets[j])])
    IN  IF node.value.k = "Call"
        THEN LET value == parse_function_call(Expr(node.value))
             IN  IF value.exc # "none" THEN value
                 ELSE Return(AssignStatement(targets, value.value))
        ELSE Return(AssignStatement(targets, PyStr(ast_unparse(node.value))))

\* the outcome of [f(stmt) for stmt in stmts]: the list, or the first exception
Comprehension(outcomes) ==
    IF \E j \in 1..Len(outcomes) : outcomes[j].exc # "none"
    THEN outcomes[CHOOSE j \in 1..Len(outcomes) :
                      /\ outcomes[j].exc # "none"
                      /\ \A h \in 1..(j - 1) : outcomes[h].exc = "none"]
    ELSE Return([j \in 1..Len(outcomes) |-> outcomes[j].value])

RECURSIVE process_statement(_)
\* _parse_class_definition, _parse_function_definition, _parse_for_loop,
\* _parse_with_statement and _parse_if_statement
parse_compound(node) ==
    LET body == Comprehension([j \in 1..Len(node.body) |-> process_statement(node.body[j])])
        orelse == Comprehension([j \in 1..Len(node.orelse) |-> process_statement(node.orelse[j])])
    IN  IF body.exc # "none" THEN body
        ELSE IF node.k \in {"For", "If"} /\ orelse.exc # "none" THEN orelse
        ELSE Return(
            CASE node.k = "ClassDef" -> ClassDefStatement(node.name, <<>>, body.value)
              [] node.k = "FunctionDef" -> FunctionDefStatement(node.name, <<>>, body.value)
              [] node.k = "For" ->
                    ForStatement(ast_unparse(node.targets[1]), ast_unparse(node.value),
                                 body.value, orelse.value)
              [] node.k = "With" ->
                    WithStatement(<< <<ast_unparse(node.value), PyNone>> >>, body.value)
              [] node.k = "If" ->
                    IfStatement(ast_unparse(node.value), body.value, orelse.value))

\* _process_statement
process_statement(node) ==
    IF node.k = "Expr" /\ node.value.k = "Call" THEN parse_function_call(node)
    ELSE IF node.k = "Expr" THEN parse_expression_statement(node)
    ELSE CASE node.k = "Import" -> parse_import_statement(node)
           [] node.k = "ImportFrom" -> parse_importfrom_statement(node)
           [] node.k \in {"ClassDef", "FunctionDef", "For", "With", "If"} -> parse_compound(node)
           [] node.k = "Assign" -> parse_assign_statement(node)
           [] OTHER -> Return(GenericStatement(node.k))

(***************************************************************************)
(* utils.find_function_calls                                               *)
(***************************************************************************)
is_function_call_statement(statement, name) ==
    statement.t = "FunctionCallStatement" /\ statement.func = name

is_assign_statement(statement, name) ==
    /\ statement.t = "AssignStatement"
    /\ statement.value.t = "FunctionCallStatement"
    /\ statement.value.func = name

find_function_calls(statements, name) ==
    SelectSeq(statements,
              LAMBDA statement : \/ is_function_call_statement(statement, name)
                                 \/ is_assign_statement(statement, name))

(***************************************************************************)
(* The parser and the two call lookups, run on one submission              *)
(***************************************************************************)
c_test == Name("c")
\* statements of the submissions the parser is run on
ParseStmts ==
    RunStmts
    \cup {Assign(<<ListE(<<Name("a"), Name("b")>>)>>, Num(1)),                      \* [a, b] = 1
          Assign(<<TupleE(<<Name("a"), Attribute(Name("o"), "x")>>)>>, c_test),     \* a, o.x = c
          Assign(<<TupleE(<<Name("a"), Name("b")>>)>>, c_test),                     \* a, b = c
          Assign(<<TupleE(<<>>)>>, ListE(<<>>)),                                    \* () = []
          Assign(<<TupleE(<<Name("a"), Attribute(Name("o"), "x")>>)>>, f_1),        \* a, o.x = f(1)
          Expr(StrC("doc")),
          Pass,
          Import(<< <<"m", "">> >>),
          ImportFrom("m", << <<"a", "">>, <<"b", "">> >>, 0),
          ClassDef("K", <<Pass>>),
          If(c_test, <<Assign(<<Name("y")>>, f_1)>>, <<Expr(f_1)>>),
          For(Name("e"), c_test, <<Assign(<<Name("a")>>, Num(1))>>, <<>>),
          With(c_test, <<Expr(g_a)>>),
          While(c_test, <<Expr(f_1)>>)}

ParseSources == SeqsUpTo(ParseStmts, MaxStmts)

InitParse ==
    /\ runner = "parse"
    /\ source \in ParseSources
    /\ function_name \in {"f", "g"}
    /\ pc = "parse"
    /\ i = 1
    /\ parsed_statements = <<>>
    /\ exc = "none"
    /\ validator_calls = NoOutcome
    /\ query_calls = NoOutcome
    /\ steps = <<>>
    /\ self_lines = PyNone
    /\ self_variables = {}
    /\ evaluated = <<>>
    /\ stdout = <<>>
    /\ exit_status = -1
    /\ variable_values = NoVariables
    /\ resolutions = <<>>
    /\ import_found = NoOutcome

\* one iteration of the loop of StatementParser.parse.  Every record is truthy,
\* so each one is appended; self.visit(node) only walks the bodies and changes
\* no state.
parse_step ==
    /\ runner = "parse"
    /\ pc = "parse"
    /\ i <= Len(source)
    /\ LET stmt == process_statement(source[i])
       IN  IF stmt.exc # "none"
           THEN /\ exc' = stmt.exc
                /\ pc' = "raised"
                /\ UNCHANGED <<parsed_statements, i>>
           ELSE /\ parsed_statements' = Append(parsed_statements, stmt.value)
                /\ i' = i + 1
                /\ UNCHANGED <<exc, pc>>
    /\ UNCHANGED <<variable_values, resolutions, import_found>>
    /\ UNCHANGED <<runner, source, steps, self_lines, self_variables, evaluated,
                   stdout, exit_status, function_name, validator_calls, query_calls>>

\* StatementParser.parse returns the list
parse_return ==
    /\ runner = "parse"
    /\ pc = "parse"
    /\ i > Len(source)
    /\ pc' = "parsed"
    /\ UNCHANGED <<variable_values, resolutions, import_found>>
    /\ UNCHANGED <<runner, source, steps, self_lines, self_variables, i, evaluated,
                   stdout, exit_status, exc, parsed_statements, function_name,
                   validator_calls, query_calls>>

\* utils.find_function_calls on the parsed forest
query_lookup ==
    /\ runner = "parse"
    /\ pc = "parsed"
    /\ query_calls = NoOutcome
    /\ query_calls' = Return(find_function_calls(parsed_statements, function_name))
    /\ UNCHANGED <<variable_values, resolutions, import_found>>
    /\ UNCHANGED <<runner, source, steps, pc, self_lines, self_variables, i, evaluated,
                   stdout, exit_status, exc, parsed_statements, function_name,
                   validator_calls>>

\* the lookup of CodeValidator on the same submission: __init__, then _find_function_call
validator_lookup ==
    /\ runner = "parse"
    /\ validator_calls = NoOutcome
    /\ self_lines' = CodeValidator_extract_python_details(source)
    /\ validator_calls' = CodeValidator_find_function_call(self_lines', function_name)
    /\ UNCHANGED <<variable_values, resolutions, import_found>>
    /\ UNCHANGED <<runner, source, steps, pc, self_variables, i, evaluated,
                   stdout, exit_status, exc, parsed_statements, function_name,
                   query_calls>>

NextParse ==
    \/ parse_step
    \/ parse_return
    \/ query_lookup
    \/ validator_lookup

SpecParse == InitParse /\ [][NextParse]_vars

(***************************************************************************)
(* Properties of the normalizer and of the call lookups                    *)
(***************************************************************************)
\* the top-level statements that call `name`, standalone or as an assigned value
TopLevelCallNodes(name) ==
    SelectSeq(source, LAMBDA node : /\ node.k \in {"Assign", "Expr"}
                                    /\ node.value.k = "Call"
                                    /\ ast_unparse(node.value.sub[1]) = name)
CallText(call) ==
    <<ast_unparse(call.sub[1]), [j \in 1..Len(call.args) |-> ast_unparse(call.args[j])]>>
TopLevelCalls(name) ==
    [j \in 1..Len(TopLevelCallNodes(name)) |-> CallText(TopLevelCallNodes(name)[j].value)]
\* a looked-up call as <<function, args>>, whichever lookup returned it
LookedUpCall(found) ==
    IF found.t = "dict" THEN <<found.function, found.args>>
    ELSE IF found.t = "AssignStatement" THEN <<found.value.func, found.value.args>>
    ELSE <<found.func, found.args>>
LookedUpCalls(outcome) == [j \in 1..Len(outcome.value) |-> LookedUpCall(outcome.value[j])]

\* C8: the lookup of CodeValidator and find_function_calls over the parsed
\* forest both return, for every submission, the top-level calls of the
\* function in source order: nested calls are not among them.
C8_SameTopLevelCalls ==
    /\ pc # "raised"
    /\ validator_calls # NoOutcome =>
          /\ validator_calls.exc = "none"
          /\ LookedUpCalls(validator_calls) = TopLevelCalls(function_name)
    /\ query_calls # NoOutcome =>
          /\ query_calls.exc = "none"
          /\ LookedUpCalls(query_calls) = TopLevelCalls(function_name)

\* C9: _process_statement returns a record for every statement and never
\* raises, so parse returns one record per top-level statement, in order.
C9_NormalizationTotal ==
    runner = "parse" =>
        /\ exc = "none"
        /\ pc # "raised"
        /\ Len(parsed_statements) = i - 1
        /\ pc = "parsed" => Len(parsed_statements) = Len(source)

IsUnpacking(node) ==
    /\ node.k = "Assign"
    /\ Len(node.targets) = 1
    /\ node.targets[1].k \in {"Tuple", "List"}
\* the strings the elements of a tuple or list target are to become
ElementStrings(target) ==
    [j \in 1..Len(target.sub) |->
        IF target.sub[j].k = "Name" THEN target.sub[j].s ELSE ast_unparse(target.sub[j])]
\* parse has dealt with the j-th top-level statement
Processed(j) == runner = "parse" /\ (i > j \/ (i = j /\ pc = "raised"))

\* C10: an assignment to a tuple or list of k elements becomes an Assign
\* record with k target strings, in order, and a right-hand side that is a
\* call becomes a nested Call record for that call.
C10_AssignNormalization ==
    \A j \in 1..Len(source) :
        (Processed(j) /\ IsUnpacking(source[j])) =>
            /\ j <= Len(parsed_statements)
            /\ parsed_statements[j].t = "AssignStatement"
            /\ parsed_statements[j].targets = ElementStrings(source[j].targets[1])
            /\ source[j].value.k = "Call" =>
                  /\ parsed_statements[j].value.t = "FunctionCallStatement"
                  /\ <<parsed_statements[j].value.func, parsed_statements[j].value.args>>
                        = CallText(source[j].value)

(***************************************************************************)
(* The variable resolver: the values its table holds                       *)
(***************************************************************************)
PySet(items) == [t |-> "set", items |-> items]
PyBuiltin(name) == [t |-> "builtin_function_or_method", s |-> name]
\* what the innermost handler stores: a plain string
Unresolvable == PyStr("Unresolvable dynamic value")

\* the value of an ast.Constant
constant_value(node) == IF node.ty = "int" THEN PyInt(node.n) ELSE PyStr(node.s)

RECURSIVE hashable(_)
hashable(value) ==
    CASE value.t \in {"list", "set"} -> FALSE
      [] value.t = "tuple" -> \A j \in 1..Len(value.items) : hashable(value.items[j])
      [] OTHER -> TRUE

\* dict assignment: variables[key] = value
setitem(dict, key, value) ==
    [n \in DOMAIN dict \cup {key} |-> IF n = key THEN value ELSE dict[n]]

(***************************************************************************)
(* ast.literal_eval of the standard library on an expression node.  A      *)
(* malformed node raises ValueError; building a set from an unhashable     *)
(* element raises TypeError.  map() is lazy, so the elements of a display  *)
(* are converted, and hashed, one after the other.                         *)
(***************************************************************************)
convert_num(node) ==
    IF node.k = "Constant" /\ node.ty = "int" THEN Return(PyInt(node.n))
    ELSE Raise("ValueError")

convert_signed_num(node) ==
    IF node.k = "UnaryOp" /\ node.s \in {"UAdd", "USub"}
    THEN LET operand == convert_num(node.sub[1])
         IN  IF operand.exc # "none" THEN operand
             ELSE IF node.s = "UAdd" THEN operand
             ELSE Return(PyInt(0 - operand.value.n))
    ELSE convert_num(node)

RECURSIVE convert(_)
RECURSIVE convert_elts(_, _, _)
convert_elts(elts, done, hashed) ==
    IF elts = <<>> THEN Return(done)
    ELSE LET first == convert(Head(elts))
         IN  IF first.exc # "none" THEN first
             ELSE IF hashed /\ ~hashable(first.value) THEN Raise("TypeError")
             ELSE convert_elts(Tail(elts), Append(done, first.value), hashed)

convert(node) ==
    CASE node.k = "Constant" -> Return(constant_value(node))
      [] node.k \in {"Tuple", "List", "Set"} ->
            LET elts == convert_elts(node.sub, <<>>, node.k = "Set")
            IN  IF elts.exc # "none" THEN elts
                ELSE IF node.k = "Tuple" THEN Return(PyTuple(elts.value))
                ELSE IF node.k = "List" THEN Return(PyList(elts.value))
                ELSE Return(PySet({elts.value[j] : j \in 1..Len(elts.value)}))
      [] node.k = "Call" /\ node.sub[1] = Name("set") /\ node.args = <<>> /\ node.kw = <<>> ->
            Return(PySet({}))
      [] node.k = "BinOp" /\ node.s \in {"Add", "Sub"} ->
            LET left == convert_signed_num(node.sub[1])
                right == convert_num(node.sub[2])
            IN  IF left.exc # "none" THEN left
                ELSE IF right.exc # "none" THEN right
                ELSE convert_signed_num(node)   \* no complex right operand: malformed
      [] OTHER -> convert_signed_num(node)

literal_eval(node) == convert(node)

(***************************************************************************)
(* eval(expression_code, {}, variables).  A name is looked up in the       *)
(* locals (the table), then in the globals, an empty dict into which       *)
(* eval() inserts __builtins__, so then among the built-in names.  The     *)
(* outcome of an evaluation carries what it printed.  The right-hand       *)
(* sides of ResolveStmts use the operators +, - and *, call without        *)
(* keyword arguments, and print strings and integers.                      *)
(***************************************************************************)
builtins == {"len", "print", "exit"}

Evaluation(outcome, printed) ==
    [exc |-> outcome.exc, value |-> outcome.value, printed |-> printed]

RECURSIVE str_times(_, _)
str_times(s, n) == IF n <= 0 THEN "" ELSE s \o str_times(s, n - 1)

RECURSIVE list_times(_, _)
list_times(items, n) == IF n <= 0 THEN <<>> ELSE items \o list_times(items, n - 1)

binop(op, left, right) ==
    LET types == <<left.t, right.t>>
        result ==
            CASE op = "Add" /\ types = <<"int", "int">> -> Return(PyInt(left.n + right.n))
              [] op = "Add" /\ types = <<"str", "str">> -> Return(PyStr(left.s \o right.s))
              [] op = "Add" /\ types = <<"list", "list">> -> Return(PyList(left.items \o right.items))
              [] op = "Add" /\ types = <<"tuple", "tuple">> -> Return(PyTuple(left.items \o right.items))
              [] op = "Sub" /\ types = <<"int", "int">> -> Return(PyInt(left.n - right.n))
              [] op = "Sub" /\ types = <<"set", "set">> -> Return(PySet(left.items \ right.items))
              [] op = "Mult" /\ types = <<"int", "int">> -> Return(PyInt(left.n * right.n))
              [] op = "Mult" /\ types = <<"str", "int">> -> Return(PyStr(str_times(left.s, right.n)))
              [] op = "Mult" /\ types = <<"int", "str">> -> Return(PyStr(str_times(right.s, left.n)))
              [] op = "Mult" /\ types = <<"list", "int">> -> Return(PyList(list_times(left.items, right.n)))
              [] op = "Mult" /\ types = <<"int", "list">> -> Return(PyList(list_times(right.items, left.n)))
              [] OTHER -> Raise("TypeError")
    IN  CASE op \in {"Add", "Sub", "Mult"} -> result

\* str() of a printed value
py_str(value) ==
    CASE value.t = "str" -> value.s
      [] value.t = "int" -> ToString(value.n)
      [] value.t = "NoneType" -> "None"

\* calling a value with positional arguments
call(func, args) ==
    CASE func.t # "builtin_function_or_method" -> Evaluation(Raise("TypeError"), <<>>)
      [] func = PyBuiltin("len") ->
            IF Len(args) # 1 THEN Evaluation(Raise("TypeError"), <<>>)
            ELSE IF args[1].t = "str" THEN Evaluation(Return(PyInt(Len(args[1].s))), <<>>)
            ELSE IF args[1].t \in {"list", "tuple"}
            THEN Evaluation(Return(PyInt(Len(args[1].items))), <<>>)
            ELSE IF args[1].t = "set"
            THEN Evaluation(Return(PyInt(Cardinality(args[1].items))), <<>>)
            ELSE Evaluation(Raise("TypeError"), <<>>)
      [] func = PyBuiltin("print") ->
            Evaluation(Return(PyNone),
                       <<Join([j \in 1..Len(args) |-> py_str(args[j])], " ")>>)
      [] func = PyBuiltin("exit") -> Evaluation(Raise("SystemExit"), <<>>)

RECURSIVE eval(_, _)
RECURSIVE eval_elts(_, _, _, _)
\* the operands of a node, evaluated left to right
eval_elts(elts, env, done, printed) ==
    IF elts = <<>> THEN Evaluation(Return(done), printed)
    ELSE LET first == eval(Head(elts), env)
         IN  IF first.exc # "none" THEN Evaluation(first, printed \o first.printed)
             ELSE eval_elts(Tail(elts), env, Append(done, first.value),
                            printed \o first.printed)

eval(node, env) ==
    CASE node.k = "Constant" -> Evaluation(Return(constant_value(node)), <<>>)
      [] node.k = "Name" ->
            IF node.s \in DOMAIN env THEN Evaluation(Return(env[node.s]), <<>>)
            ELSE IF node.s \in builtins THEN Evaluation(Return(PyBuiltin(node.s)), <<>>)
            ELSE Evaluation(Raise("NameError"), <<>>)
      [] node.k \in {"Tuple", "List", "Set"} ->
            LET elts == eval_elts(node.sub, env, <<>>, <<>>)
                items == elts.value
            IN  IF elts.exc # "none" THEN elts
                ELSE IF node.k = "Tuple" THEN Evaluation(Return(PyTuple(items)), elts.printed)
                ELSE IF node.k = "List" THEN Evaluation(Return(PyList(items)), elts.printed)
                ELSE IF \E j \in 1..Len(items) : ~hashable(items[j])
                THEN Evaluation(Raise("TypeError"), elts.printed)
                ELSE Evaluation(Return(PySet({items[j] : j \in 1..Len(items)})), elts.printed)
      [] node.k = "UnaryOp" /\ node.s \in {"UAdd", "USub"} ->
            LET operand == eval(node.sub[1], env)
            IN  IF operand.exc # "none" THEN operand
                ELSE IF operand.value.t # "int"
                THEN Evaluation(Raise("TypeError"), operand.printed)
                ELSE IF node.s = "UAdd" THEN operand
                ELSE Evaluation(Return(PyInt(0 - operand.value.n)), operand.printed)
      [] node.k = "BinOp" ->
            LET operands == eval_elts(node.sub, env, <<>>, <<>>)
            IN  IF operands.exc # "none" THEN operands
                ELSE Evaluation(binop(node.s, operands.value[1], operands.value[2]),
                                operands.printed)
      [] node.k = "Call" /\ node.kw = <<>> ->
            LET operands == eval_elts(node.sub \o node.args, env, <<>>, <<>>)
            IN  IF operands.exc # "none" THEN operands
                ELSE LET called == call(Head(operands.value), Tail(operands.value))
                     IN  Evaluation(called, operands.printed \o called.printed)

(***************************************************************************)
(* retrieve_variable_values: StatementParser's method and the function of  *)
(* verify_helpers have the same loop over ast.walk(tree).                  *)
(***************************************************************************)
\* `except Exception` catches every exception class but the BaseException-only ones
is_Exception(exception) == exception # "SystemExit"

Resolution(target, value, before, how, stored) ==
    [target |-> target, value |-> value, before |-> before, how |-> how, stored |-> stored]

\* the try statement, for one target that is an ast.Name.  st holds the table,
\* the bindings made and the lines printed so far, and the exception that
\* leaves the function, if any.
resolve_target(st, id, value) ==
    LET literal == literal_eval(value)
        computed == eval(value, st.variables)
        bound(how, stored, printed) ==
            [variables |-> setitem(st.variables, id, stored),
             resolutions |-> Append(st.resolutions,
                                    Resolution(id, value, st.variables, how, stored)),
             printed |-> st.printed \o printed,
             exc |-> "none"]
    IN  IF literal.exc = "none" THEN bound("literal_eval", literal.value, <<>>)
        ELSE IF literal.exc # "ValueError" THEN [st EXCEPT !.exc = literal.exc]
        ELSE IF computed.exc = "none" THEN bound("eval", computed.value, computed.printed)
        ELSE IF is_Exception(computed.exc)
        THEN bound("except", Unresolvable, computed.printed)
        ELSE [st EXCEPT !.exc = computed.exc, !.printed = @ \o computed.printed]

\* for target in node.targets
RECURSIVE resolve_targets(_, _, _)
resolve_targets(st, targets, value) ==
    IF targets = <<>> \/ st.exc # "none" THEN st
    ELSE resolve_targets(IF Head(targets).k = "Name"
                         THEN resolve_target(st, Head(targets).s, value)
                         ELSE st,
                         Tail(targets), value)

\* the body of `for node in ast.walk(tree)` for one node
resolve_node(st, node) ==
    IF node.k = "Assign" THEN resolve_targets(st, node.targets, node.value) ELSE st

\* statements of the submissions the resolvers are run on
x_name == Name("x")
ResolveStmts ==
    {Assign(<<x_name>>, Num(1)),                                       \* x = 1
     Assign(<<x_name>>, Num(2)),                                       \* x = 2
     Assign(<<x_name>>, UnaryOp("USub", Num(1))),                      \* x = -1
     Assign(<<x_name>>, StrC("Unresolvable dynamic value")),           \* x = 'Unresolvable dynamic value'
     Assign(<<x_name>>, BinOp(Name("u"), "Add", Num(1))),              \* x = u + 1
     Assign(<<x_name>>, Call(Name("len"), <<StrC("ab")>>, <<>>)),      \* x = len('ab')
     Assign(<<x_name>>, Call(Name("print"), <<StrC("hi")>>, <<>>)),    \* x = print('hi')
     Assign(<<x_name>>, Call(Name("exit"), <<>>, <<>>)),               \* x = exit()
     Assign(<<x_name>>, SetE(<<ListE(<<Num(1)>>)>>)),                  \* x = {[1]}
     Assign(<<x_name, Name("y")>>, Num(3)),                            \* x = y = 3
     Assign(<<Name("y")>>, BinOp(x_name, "Add", Num(1))),              \* y = x + 1
     Assign(<<Name("y")>>, BinOp(x_name, "Mult", Num(2))),             \* y = x * 2
     Assign(<<Name("y")>>, x_name),                                    \* y = x
     Assign(<<Name("y")>>, ListE(<<x_name>>)),                         \* y = [x]
     Assign(<<TupleE(<<Name("a"), Name("b")>>)>>, TupleE(<<Num(1), Num(2)>>)),   \* a, b = 1, 2
     If(c_test, <<Assign(<<x_name>>, Num(1))>>, <<>>),                 \* if c: x = 1
     FunctionDef("h", <<Assign(<<x_name>>, Num(5))>>),                 \* def h(): x = 5
     Expr(f_1)}                                                        \* f(1)

ResolveSources == SeqsUpTo(ResolveStmts, MaxStmts)

InitResolve ==
    /\ runner \in {"StatementParser.retrieve_variable_values",
                   "verify_helpers.retrieve_variable_values"}
    /\ source \in ResolveSources
    /\ pc = "resolve"
    /\ i = 1
    /\ variable_values = NoVariables
    /\ resolutions = <<>>
    /\ stdout = <<>>
    /\ exc = "none"
    /\ exit_status = -1
    /\ steps = <<>>
    /\ self_lines = PyNone
    /\ self_variables = {}
    /\ evaluated = <<>>
    /\ parsed_statements = <<>>
    /\ function_name = ""
    /\ validator_calls = NoOutcome
    /\ query_calls = NoOutcome
    /\ import_found = NoOutcome

\* one iteration of `for node in ast.walk(tree)`
walk_step ==
    /\ pc = "resolve"
    /\ i <= Len(walk(source))
    /\ LET st == resolve_node([variables |-> variable_values, resolutions |-> resolutions,
                               printed |-> <<>>, exc |-> "none"],
                              walk(source)[i])
       IN  /\ variable_values' = st.variables
           /\ resolutions' = st.resolutions
           /\ stdout' = stdout \o [j \in 1..Len(st.printed) |-> Printed("print", 0, st.printed[j])]
           /\ exc' = st.exc
           /\ IF st.exc # "none"
              THEN pc' = "raised" /\ UNCHANGED i
              ELSE i' = i + 1 /\ UNCHANGED pc
    /\ UNCHANGED <<runner, source, steps, self_lines, self_variables, evaluated,
                   exit_status, parsed_statements, function_name, validator_calls,
                   query_calls, import_found>>

\* return variables
walk_return ==
    /\ pc = "resolve"
    /\ i > Len(walk(source))
    /\ pc' = "resolved"
    /\ UNCHANGED <<runner, source, steps, self_lines, self_variables, i, evaluated,
                   stdout, exit_status, exc, parsed_statements, function_name,
                   validator_calls, query_calls, variable_values, resolutions,
                   import_found>>

StatementParser_retrieve_variable_values_step ==
    runner = "StatementParser.retrieve_variable_values" /\ walk_step

StatementParser_retrieve_variable_values_return ==
    runner = "StatementParser.retrieve_variable_values" /\ walk_return

retrieve_variable_values_step ==
    runner = "verify_helpers.retrieve_variable_values" /\ walk_step

retrieve_variable_values_return ==
    runner = "verify_helpers.retrieve_variable_values" /\ walk_return

NextResolve ==
    \/ StatementParser_retrieve_variable_values_step
    \/ StatementParser_retrieve_variable_values_return
    \/ retrieve_variable_values_step
    \/ retrieve_variable_values_return

SpecResolve == InitResolve /\ [][NextResolve]_vars

(***************************************************************************)
(* Properties of the variable resolver                                     *)
(***************************************************************************)
ResolverReturned ==
    /\ runner \in {"StatementParser.retrieve_variable_values",
                   "verify_helpers.retrieve_variable_values"}
    /\ pc = "resolved"

\* the statements of a tree in the order of the source text
RECURSIVE SourceOrder(_)
SourceOrder(nodes) ==
    IF nodes = <<>> THEN <<>>
    ELSE <<Head(nodes)>> \o SourceOrder(Head(nodes).body) \o SourceOrder(Head(nodes).orelse)
             \o SourceOrder(Tail(nodes))

RECURSIVE Processing(_, _)
Processing(st, nodes) ==
    IF nodes = <<>> \/ st.exc # "none" THEN st
    ELSE Processing(resolve_node(st, Head(nodes)), Tail(nodes))

\* the table that processing the assignments in source order builds
SourceOrderTable ==
    Processing([variables |-> NoVariables, resolutions |-> <<>>, printed |-> <<>>,
                exc |-> "none"],
               SourceOrder(source)).variables

\* C11: the table a resolver returns is the one built by processing the
\* assignments in the order of the source text, each right-hand side evaluated
\* against the bindings of the assignments before it in the text and a later
\* assignment to a name overwriting an earlier one, also when an assignment
\* nested in a body precedes a top-level assignment.
C11_SourceOrderBindings ==
    ResolverReturned => variable_values = SourceOrderTable

ResolverRuns ==
    runner \in {"StatementParser.retrieve_variable_values",
                "verify_helpers.retrieve_variable_values"}

\* the simple names the assignments of the submission bind
AssignedNames ==
    UNION {{walk(source)[j].targets[h].s :
                h \in {g \in 1..Len(walk(source)[j].targets) :
                           walk(source)[j].targets[g].k = "Name"}} :
           j \in {g \in 1..Len(walk(source)) : walk(source)[g].k = "Assign"}}

\* C12: a resolver never raises; it returns a table that has an entry for
\* every simple name the submission assigns, and for the submission
\* `x = u + 1`, u undefined, the entry of x is the Unresolvable sentinel.
C12_ResolverNeverRaises ==
    ResolverRuns =>
        /\ pc # "raised"
        /\ exc = "none"
        /\ pc = "resolved" => AssignedNames \subseteq DOMAIN variable_values
        /\ (pc = "resolved" /\ source = <<Assign(<<x_name>>, BinOp(Name("u"), "Add", Num(1)))>>)
               => variable_values["x"] = Unresolvable

\* the names an expression reads, and whether it contains a call
RECURSIVE NamesRead(_)
NamesRead(node) ==
    (IF node.k = "Name" THEN {node.s} ELSE {})
        \cup UNION {NamesRead(node.sub[j]) : j \in 1..Len(node.sub)}
        \cup UNION {NamesRead(node.args[j]) : j \in 1..Len(node.args)}
        \cup UNION {NamesRead(node.kw[j][2]) : j \in 1..Len(node.kw)}

RECURSIVE ContainsCall(_)
ContainsCall(node) ==
    \/ node.k = "Call"
    \/ \E j \in 1..Len(node.sub) : ContainsCall(node.sub[j])
    \/ \E j \in 1..Len(node.args) : ContainsCall(node.args[j])
    \/ \E j \in 1..Len(node.kw) : ContainsCall(node.kw[j][2])

\* C13: a right-hand side that contains a call, or reads a name that is not a
\* key of the table when it is evaluated (a built-in name included), is
\* recorded as Unresolvable, and resolving has no effect outside the table:
\* nothing is printed.
C13_RestrictedEvaluation ==
    ResolverRuns =>
        /\ \A j \in 1..Len(resolutions) :
              (ContainsCall(resolutions[j].value)
                   \/ ~(NamesRead(resolutions[j].value) \subseteq DOMAIN resolutions[j].before))
                  => resolutions[j].stored = Unresolvable
        /\ stdout = <<>>

\* the binding that stored the current entry of a name
LatestResolution(name) ==
    LET made == {j \in 1..Len(resolutions) : resolutions[j].target = name}
    IN  resolutions[CHOOSE j \in made : \A h \in made : h <= j]

\* C16: a name maps to the sentinel exactly when both literal evaluation and
\* restricted evaluation of its latest right-hand side failed; no value that a
\* successful evaluation stored equals the sentinel.
C16_SentinelDistinguishable ==
    ResolverRuns =>
        \A name \in DOMAIN variable_values :
            (variable_values[name] = Unresolvable) <=> (LatestResolution(name).how = "except")

\* C17: when the right-hand side of an assignment reads a name that the table
\* binds to Unresolvable at that moment, the target is recorded as
\* Unresolvable too.
C17_UnresolvablePropagates ==
    ResolverRuns =>
        \A j \in 1..Len(resolutions) :
            (\E name \in NamesRead(resolutions[j].value) \cap DOMAIN resolutions[j].before :
                 resolutions[j].before[name] = Unresolvable)
                => resolutions[j].stored = Unresolvable

(***************************************************************************)
(* Properties of the records of the normalizer                             *)
(***************************************************************************)
\* the Assign records of a forest, the ones inside body and orelse included
RECURSIVE AssignRecords(_)
AssignRecords(statements) ==
    UNION {(IF statements[j].t = "AssignStatement" THEN {statements[j]} ELSE {})
               \cup (IF "body" \in DOMAIN statements[j]
                     THEN AssignRecords(statements[j].body) ELSE {})
               \cup (IF "orelse" \in DOMAIN statements[j]
                     THEN AssignRecords(statements[j].orelse) ELSE {}) :
           j \in 1..Len(statements)}

\* C15: every Assign record the normalizer produces, at top level or inside a
\* body or orelse, has at least one target.
C15_AssignHasTarget ==
    runner = "parse" =>
        \A statement \in AssignRecords(parsed_statements) : Len(statement.targets) >= 1

(***************************************************************************)
(* utils.find_import_from_statement, run on the parsed forest              *)
(***************************************************************************)
MaxNames == 2      \* length of the submodules list a lookup is given

\* set(a_list)
set(items) == {items[j] : j \in 1..Len(items)}

import_from_matches_ordered(statement, module_name, submodules, alias) ==
    /\ statement.t = "ImportFromStatement"
    /\ statement.module = module_name
    /\ submodules = statement.names
    /\ statement.alias = alias

\* the condition of the if statement in the loop
import_from_matches(statement, module_name, submodules, alias) ==
    /\ statement.t = "ImportFromStatement"
    /\ statement.module = module_name
    /\ set(submodules) = set(statement.names)
    /\ statement.alias = alias

RECURSIVE find_import_from_statement(_, _, _, _)
find_import_from_statement(statements, module_name, submodules, alias) ==
    IF statements = <<>> THEN PyNone
    ELSE IF import_from_matches(Head(statements), module_name, submodules, alias)
    THEN Head(statements)
    ELSE find_import_from_statement(Tail(statements), module_name, submodules, alias)

from_m_import_a_b == ImportFrom("m", << <<"a", "">>, <<"b", "">> >>, 0)
\* statements of the submissions the import lookup is run on
ImportStmts ==
    {from_m_import_a_b,                                          \* from m import a, b
     ImportFrom("m", << <<"b", "">>, <<"a", "">> >>, 0),         \* from m import b, a
     ImportFrom("m", << <<"a", "">> >>, 0),                      \* from m import a
     ImportFrom("m", << <<"a", "z">>, <<"b", "">> >>, 0),        \* from m import a as z, b
     ImportFrom("m", << <<"a", "">>, <<"b", "z">> >>, 0),        \* from m import a, b as z
     ImportFrom("m", << <<"a", "">>, <<"a", "">> >>, 0),         \* from m import a, a
     ImportFrom("n", << <<"a", "">>, <<"b", "">> >>, 0),         \* from n import a, b
     ImportFrom("", << <<"a", "">> >>, 1),                       \* from . import a
     Import(<< <<"m", "">> >>),                                  \* import m
     Assign(<<x_name>>, Num(1)),                                 \* x = 1
     If(c_test, <<from_m_import_a_b>>, <<>>),                    \* if c: from m import a, b
     Expr(f_1)}                                                  \* f(1)

ImportSources == SeqsUpTo(ImportStmts, MaxStmts)
ModuleNames == {"m", "n", ""}
SubmoduleLists == SeqsUpTo({"a", "b"}, MaxNames)
Aliases == {PyNone, PyStr("z")}

ImportLookup(module_name, submodules, alias, found) ==
    [exc |-> "none", value |-> found,
     module_name |-> module_name, submodules |-> submodules, alias |-> alias]

InitImport ==
    /\ runner = "parse"
    /\ source \in ImportSources
    /\ function_name = "f"
    /\ pc = "parse"
    /\ i = 1
    /\ parsed_statements = <<>>
    /\ exc = "none"
    /\ validator_calls = NoOutcome
    /\ query_calls = NoOutcome
    /\ steps = <<>>
    /\ self_lines = PyNone
    /\ self_variables = {}
    /\ evaluated = <<>>
    /\ stdout = <<>>
    /\ exit_status = -1
    /\ variable_values = NoVariables
    /\ resolutions = <<>>
    /\ import_found = NoOutcome

\* one call of find_import_from_statement on the list StatementParser.parse returned
import_lookup ==
    /\ runner = "parse"
    /\ pc = "parsed"
    /\ import_found = NoOutcome
    /\ \E module_name \in ModuleNames, submodules \in SubmoduleLists, alias \in Aliases :
           import_found' =
               ImportLookup(module_name, submodules, alias,
                            find_import_from_statement(parsed_statements, module_name,
                                                       submodules, alias))
    /\ UNCHANGED <<runner, source, steps, pc, self_lines, self_variables, i, evaluated,
                   stdout, exit_status, exc, parsed_statements, function_name,
                   validator_calls, query_calls, variable_values, resolutions>>

NextImport ==
    \/ parse_step
    \/ parse_return
    \/ import_lookup

SpecImport == InitImport /\ [][NextImport]_vars

(***************************************************************************)
(* Properties of the import lookup                                         *)
(***************************************************************************)
\* the positions of the top-level records a lookup's arguments select
ImportHits ==
    {j \in 1..Len(parsed_statements) :
        /\ parsed_statements[j].t = "ImportFromStatement"
        /\ parsed_statements[j].module = import_found.module_name
        /\ {parsed_statements[j].names[h] : h \in 1..Len(parsed_statements[j].names)}
               = {import_found.submodules[h] : h \in 1..Len(import_found.submodules)}
        /\ parsed_statements[j].alias = import_found.alias}

\* C14: find_import_from_statement does not raise and returns the first
\* top-level ImportFrom record whose module is module_name, whose names are,
\* as a set, the given submodules, and whose alias is the given alias (None
\* for none), or None when there is no such record; `from m import a, b` is
\* found for the submodules ['b', 'a'] and not for ['a'].
C14_ImportFromLookup ==
    import_found # NoOutcome =>
        /\ import_found.exc = "none"
        /\ IF ImportHits = {} THEN import_found.value = PyNone
           ELSE import_found.value =
                    parsed_statements[CHOOSE j \in ImportHits : \A h \in ImportHits : j <= h]
        /\ (source = <<from_m_import_a_b>> /\ import_found.module_name = "m"
                /\ import_found.alias = PyNone)
               => /\ import_found.submodules = <<"b", "a">>
                        => import_found.value
                               = ImportFromStatement("m", <<"a", "b">>, PyNone, 0)
                  /\ import_found.submodules = <<"a">> => import_found.value = PyNone

\* a lookup that skipped a record and returned one whose names are in another order
C14_Witness ==
    /\ import_found # NoOutcome
    /\ import_found.value # PyNone
    /\ import_found.value.names # import_found.submodules
    /\ Len(import_found.submodules) = 2
    /\ Len(parsed_statements) = 2
    /\ import_found.value = parsed_statements[2]
    /\ parsed_statements[1].t = "ImportFromStatement"

====
